---------------------------- MODULE Spec2Model ----------------------------
(***************************************************************************)
(* Model of feather.js core/bech32.ts (the five address families built on  *)
(* the bech32 codec) and of the Amino / Data / Proto converters of         *)
(* MsgClaimDelegationRewards and MsgCreateDenom.                           *)
(*                                                                         *)
(* A JavaScript string is a sequence of character codes (charCodeAt), a    *)
(* JavaScript value a record [t, v] tagged with its typeof, and the        *)
(* outcome of a call a record [threw, val]: a returned value, or the       *)
(* error that left the call.                                               *)
(***************************************************************************)
EXTENDS Integers, Sequences, FiniteSets, TLC

(***************************************************************************)
(* JavaScript values and outcomes                                          *)
(***************************************************************************)
Str(s) == [t |-> "string", v |-> s]
Bool(b) == [t |-> "boolean", v |-> b]
Undefined == [t |-> "undefined", v |-> <<>>]
Obj(o) == [t |-> "object", v |-> o]

\* ToBoolean: false, undefined and "" are falsy
Truthy(x) ==
  CASE x.t = "boolean" -> x.v
    [] x.t = "string" -> Len(x.v) > 0
    [] x.t = "undefined" -> FALSE
    [] OTHER -> TRUE

\* a || b
OrElse(a, b) == IF Truthy(a) THEN a ELSE b

\* a === b
StrictEq(a, b) == a.t = b.t /\ a.v = b.v

Return(x) == [threw |-> FALSE, val |-> x]
Throw(e) == [threw |-> TRUE, val |-> [t |-> "error", v |-> e]]

(***************************************************************************)
(* String helpers                                                          *)
(***************************************************************************)
IsLower(c) == c >= 97 /\ c <= 122
IsUpper(c) == c >= 65 /\ c <= 90
toLowerCase(s) == [i \in 1..Len(s) |-> IF IsUpper(s[i]) THEN s[i] + 32 ELSE s[i]]
toUpperCase(s) == [i \in 1..Len(s) |-> IF IsLower(s[i]) THEN s[i] - 32 ELSE s[i]]

\* String.prototype.substring(start, end), 0-based, end exclusive;
\* arguments below 0 are taken as 0 and above the length as the length,
\* and the two are swapped when start > end
Clamp(n, len) == IF n < 0 THEN 0 ELSE IF n > len THEN len ELSE n
substring(s, start, end) ==
  LET a == Clamp(start, Len(s))
      b == Clamp(end, Len(s))
      lo == IF a < b THEN a ELSE b
      hi == IF a < b THEN b ELSE a
  IN SubSeq(s, lo + 1, hi)

\* String.prototype.lastIndexOf(c), 0-based, -1 when absent
lastIndexOf(s, c) ==
  LET at == {i \in 1..Len(s) : s[i] = c}
  IN IF at = {} THEN -1 ELSE (CHOOSE i \in at : \A j \in at : j <= i) - 1

(***************************************************************************)
(* The bech32 codec (package 'bech32', imported by core/bech32.ts)         *)
(***************************************************************************)
\* "qpzry9x8gf2tvdw0s3jn54khce6mua7l"
ALPHABET ==
  <<113, 112, 122, 114, 121, 57, 120, 56, 103, 102, 50, 116, 118, 100, 119, 48,
    115, 51, 106, 110, 53, 52, 107, 104, 99, 101, 54, 109, 117, 97, 55, 108>>

ALPHABET_MAP == [c \in {ALPHABET[i] : i \in 1..32} |->
                   (CHOOSE i \in 1..32 : ALPHABET[i] = c) - 1]

\* LIMIT = LIMIT || 90: the codec's default limit on an encoded string
LIMIT == 90

\* The checksum state is a 30-bit integer, kept as six 5-bit words, the most
\* significant first
RECURSIVE XorBits(_, _, _)
XorBits(a, b, n) ==
  IF n = 0 THEN 0
  ELSE (((a % 2) + (b % 2)) % 2) + 2 * XorBits(a \div 2, b \div 2, n - 1)

Xor5 == [a \in 0..31 |-> [b \in 0..31 |-> XorBits(a, b, 5)]]

XorChk(x, y) == [i \in 1..6 |-> Xor5[x[i]][y[i]]]

ToChk(n) == [i \in 1..6 |-> (n \div (32 ^ (6 - i))) % 32]

\* 0x3b6a57b2, 0x26508e6d, 0x1ea119fa, 0x3d4233dd, 0x2a1462b3
GEN == <<ToChk(996825010), ToChk(642813549), ToChk(513874426),
         ToChk(1027748829), ToChk(705979059)>>

RECURSIVE GenSum(_, _)
GenSum(b, i) ==
  IF i > 5 THEN ToChk(0)
  ELSE LET rest == GenSum(b \div 2, i + 1)
       IN IF b % 2 = 1 THEN XorChk(GEN[i], rest) ELSE rest

GenOf == [b \in 0..31 |-> GenSum(b, 1)]

\* polymodStep(pre) ^ v, for a v below 32
polymodStep(pre, v) ==
  LET g == GenOf[pre[1]]
  IN <<Xor5[pre[2]][g[1]], Xor5[pre[3]][g[2]], Xor5[pre[4]][g[3]],
       Xor5[pre[5]][g[4]], Xor5[pre[6]][g[5]], Xor5[v][g[6]]>>

\* The loop chk = polymodStep(chk) ^ vs[i] over vs[lo..hi], folded by halves
\* (the test of Len(chk) has chk computed before the range is split)
RECURSIVE PolymodRange(_, _, _, _)
PolymodRange(chk, vs, lo, hi) ==
  IF Len(chk) # 6 \/ lo > hi THEN chk
  ELSE IF lo = hi THEN polymodStep(chk, vs[lo])
  ELSE PolymodRange(PolymodRange(chk, vs, lo, (lo + hi) \div 2),
                    vs, ((lo + hi) \div 2) + 1, hi)

Polymod(chk, vs) == PolymodRange(chk, vs, 1, Len(vs))

\* prefixChk: the checksum state after the prefix, or an error for a
\* character outside 33..126
prefixChk(prefix) ==
  IF \E i \in 1..Len(prefix) : prefix[i] < 33 \/ prefix[i] > 126
  THEN Throw("Invalid prefix")
  ELSE Return(Obj(Polymod(ToChk(1),
                [i \in 1..Len(prefix) |-> prefix[i] \div 32]
                \o <<0>> \o
                [i \in 1..Len(prefix) |-> prefix[i] % 32])))

bech32_encode(prefix0, words) ==
  IF Len(prefix0) + 7 + Len(words) > LIMIT THEN Throw("Exceeds length limit")
  ELSE
    LET prefix == toLowerCase(prefix0)
        pchk == prefixChk(prefix)
    IN IF pchk.threw THEN pchk
       ELSE IF \E i \in 1..Len(words) : words[i] < 0 \/ words[i] > 31
       THEN Throw("Non 5-bit word")
       ELSE
         LET chk == Polymod(pchk.val.v, words \o <<0, 0, 0, 0, 0, 0>>)
             sum == XorChk(chk, ToChk(1))
         IN Return(Str(prefix \o <<49>>
                       \o [i \in 1..Len(words) |-> ALPHABET[words[i] + 1]]
                       \o [i \in 1..6 |-> ALPHABET[sum[i] + 1]]))

bech32_decode(str0) ==
  IF Len(str0) < 8 THEN Throw("too short")
  ELSE IF Len(str0) > LIMIT THEN Throw("Exceeds length limit")
  ELSE IF str0 # toLowerCase(str0) /\ str0 # toUpperCase(str0)
  THEN Throw("Mixed-case string")
  ELSE
    LET str == toLowerCase(str0)
        split == lastIndexOf(str, 49)
    IN IF split = -1 THEN Throw("No separator character")
       ELSE IF split = 0 THEN Throw("Missing prefix")
       ELSE
         LET prefix == SubSeq(str, 1, split)
             wordChars == SubSeq(str, split + 2, Len(str))
             pchk == prefixChk(prefix)
         IN IF Len(wordChars) < 6 THEN Throw("Data too short")
            ELSE IF pchk.threw THEN pchk
            ELSE IF \E i \in 1..Len(wordChars) :
                      wordChars[i] \notin DOMAIN ALPHABET_MAP
            THEN Throw("Unknown character")
            ELSE
              LET vs == [i \in 1..Len(wordChars) |-> ALPHABET_MAP[wordChars[i]]]
              IN IF Polymod(pchk.val.v, vs) # ToChk(1)
                 THEN Throw("Invalid checksum")
                 ELSE Return(Obj([prefix |-> prefix,
                                  words |-> SubSeq(vs, 1, Len(vs) - 6)]))

(***************************************************************************)
(* core/bech32.ts                                                          *)
(***************************************************************************)
valoper == <<118, 97, 108, 111, 112, 101, 114>>                \* "valoper"
pub == <<112, 117, 98>>                                        \* "pub"
valoperpub == <<118, 97, 108, 111, 112, 101, 114, 112, 117, 98>> \* "valoperpub"
valcons == <<118, 97, 108, 99, 111, 110, 115>>                 \* "valcons"

\* checkLength without its try / catch
checkLength_noCatch(data, length) ==
  LET vals == bech32_decode(data)
  IN IF vals.threw THEN vals
     ELSE IF Len(vals.val.v.words) = length THEN Return(Str(vals.val.v.prefix))
     ELSE Return(Bool(FALSE))

\* try { vals = bech32.decode(data);
\*       return vals.words.length === length && vals.prefix }
\* catch (e) { return false }
checkLength(data, length) ==
  LET vals == bech32_decode(data)
  IN IF vals.threw THEN Return(Bool(FALSE))
     ELSE IF Len(vals.val.v.words) = length THEN Return(Str(vals.val.v.prefix))
     ELSE Return(Bool(FALSE))

\* /([a-z]{2,20}<suffix>)/g.test(s): a fresh regular expression, not
\* anchored, so the match may start and end anywhere in s
RegExpTest(suffix, s) ==
  \E i \in 1..Len(s) : \E n \in 2..20 :
    /\ i + n + Len(suffix) - 1 <= Len(s)
    /\ \A k \in i..(i + n - 1) : IsLower(s[k])
    /\ SubSeq(s, i + n, i + n + Len(suffix) - 1) = suffix

\* prefix ? checkLength(data, 32) === `${prefix}<suffix>`
\*        : /([a-z]{2,20}<suffix>)/g.test(checkLength(data, 32) || '')
\* (an error leaving checkLength would leave validate: it has no handler)
validateSuffixed(data, prefix, suffix) ==
  LET c == checkLength(data, 32)
  IN IF c.threw THEN c
     ELSE IF Truthy(prefix)
     THEN Return(Bool(StrictEq(c.val, Str(prefix.v \o suffix))))
     ELSE Return(Bool(RegExpTest(suffix, OrElse(c.val, Str(<<>>)).v)))

\* vals = bech32.decode(address); return bech32.encode(`${prefix}<suffix>`, vals.words)
fromWithSuffix(address, prefix, suffix) ==
  LET vals == bech32_decode(address)
  IN IF vals.threw THEN vals
     ELSE bech32_encode(prefix \o suffix, vals.val.v.words)

\* vals = bech32.decode(address);
\* return vals.prefix.substring(0, vals.prefix.length - '<suffix>'.length)
getPrefixSuffixed(address, suffix) ==
  LET vals == bech32_decode(address)
  IN IF vals.threw THEN vals
     ELSE Return(Str(substring(vals.val.v.prefix, 0,
                               Len(vals.val.v.prefix) - Len(suffix))))

\* AccAddress.validate that never compares with the expected prefix
AccAddress_validate_ignoresPrefix(data, prefix) ==
  LET c32 == checkLength(data, 32)
      c52 == checkLength(data, 52)
      either == IF c32.threw \/ Truthy(c32.val) THEN c32 ELSE c52
  IN IF either.threw THEN either ELSE Return(Bool(Truthy(either.val)))

\* AccAddress.validate that takes 20 words for the length of an account
AccAddress_validate_20words(data, prefix) ==
  LET c20 == checkLength(data, 20)
      c52 == checkLength(data, 52)
      either == IF c20.threw \/ Truthy(c20.val) THEN c20 ELSE c52
  IN IF either.threw THEN either
     ELSE IF Truthy(prefix) THEN Return(Bool(StrictEq(either.val, prefix)))
     ELSE Return(Bool(Truthy(either.val)))

\* prefix ? (checkLength(data, 32) || checkLength(data, 52)) === prefix
\*        : !!(checkLength(data, 32) || checkLength(data, 52))
AccAddress_validate(data, prefix) ==
  LET c32 == checkLength(data, 32)
      c52 == checkLength(data, 52)
      either == IF c32.threw \/ Truthy(c32.val) THEN c32 ELSE c52
  IN IF either.threw THEN either
     ELSE IF Truthy(prefix) THEN Return(Bool(StrictEq(either.val, prefix)))
     ELSE Return(Bool(Truthy(either.val)))

\* AccAddress.fromValAddress that re-encodes under the prefix as decoded
AccAddress_fromValAddress_keepsPrefix(address) ==
  LET vals == bech32_decode(address)
  IN IF vals.threw THEN vals
     ELSE bech32_encode(vals.val.v.prefix, vals.val.v.words)

\* AccAddress.fromValAddress that strips 'pub'.length characters
AccAddress_fromValAddress_stripsPub(address) ==
  LET vals == bech32_decode(address)
  IN IF vals.threw THEN vals
     ELSE bech32_encode(substring(vals.val.v.prefix, 0,
                                  Len(vals.val.v.prefix) - Len(pub)),
                        vals.val.v.words)

AccAddress_fromValAddress(address) ==
  LET vals == bech32_decode(address)
  IN IF vals.threw THEN vals
     ELSE bech32_encode(substring(vals.val.v.prefix, 0,
                                  Len(vals.val.v.prefix) - Len(valoper)),
                        vals.val.v.words)

\* AccAddress.getPrefix that answers '' for a string it cannot decode
AccAddress_getPrefix_absorbs(address) ==
  LET vals == bech32_decode(address)
  IN IF vals.threw THEN Return(Str(<<>>)) ELSE Return(Str(vals.val.v.prefix))

AccAddress_getPrefix(address) ==
  LET vals == bech32_decode(address)
  IN IF vals.threw THEN vals ELSE Return(Str(vals.val.v.prefix))

AccPubKey_validate(data, prefix) == validateSuffixed(data, prefix, pub)

AccPubKey_fromAccAddress(address, prefix) == fromWithSuffix(address, prefix, pub)

AccPubKey_getPrefix(address) == getPrefixSuffixed(address, pub)

ValAddress_validate(data, prefix) == validateSuffixed(data, prefix, valoper)

\* ValAddress.fromAccAddress that encodes under `${prefix}`
ValAddress_fromAccAddress_noSuffix(address, prefix) ==
  fromWithSuffix(address, prefix, <<>>)

ValAddress_fromAccAddress(address, prefix) ==
  fromWithSuffix(address, prefix, valoper)

ValAddress_getPrefix(address) == getPrefixSuffixed(address, valoper)

ValPubKey_validate(data, prefix) == validateSuffixed(data, prefix, valoperpub)

ValPubKey_fromValAddress(valAddress, prefix) ==
  fromWithSuffix(valAddress, prefix, valoperpub)

\* ValPubKey.getPrefix that strips 'valoper'.length characters
ValPubKey_getPrefix_stripsValoper(address) == getPrefixSuffixed(address, valoper)

ValPubKey_getPrefix(address) == getPrefixSuffixed(address, valoperpub)

ValConsAddress_validate(data, prefix) == validateSuffixed(data, prefix, valcons)

ValConsAddress_getPrefix(address) == getPrefixSuffixed(address, valcons)

(***************************************************************************)
(* core/alliance/msgs/MsgClaimDelegationRewards.ts and MsgCreateDenom      *)
(* A message object is a record of its class and its public fields.        *)
(***************************************************************************)
\* Generated fromPartial: a base message with every field "", then each
\* field of the partial object that is present
fromPartial(fields, object) ==
  [f \in fields |-> IF f \in DOMAIN object THEN object[f] ELSE ""]

new_MsgClaimDelegationRewards(delegatorAddress, validatorAddress, denom) ==
  [class |-> "MsgClaimDelegationRewards",
   fields |-> [delegatorAddress |-> delegatorAddress,
               validatorAddress |-> validatorAddress,
               denom |-> denom]]

MsgClaimDelegationRewards_fromAmino(amino) ==
  new_MsgClaimDelegationRewards(amino.value.delegatorAddress,
                                amino.value.validatorAddress,
                                amino.value.denom)

MsgClaimDelegationRewards_toAmino(this) ==
  [type |-> "alliance/MsgClaimDelegationRewards",
   value |-> [delegatorAddress |-> this.fields.delegatorAddress,
              validatorAddress |-> this.fields.validatorAddress,
              denom |-> this.fields.denom]]

\* fromData with the two addresses in each other's place
MsgClaimDelegationRewards_fromData_swapped(proto) ==
  new_MsgClaimDelegationRewards(proto.validatorAddress, proto.delegatorAddress,
                                proto.denom)

MsgClaimDelegationRewards_fromData(proto) ==
  new_MsgClaimDelegationRewards(proto.delegatorAddress, proto.validatorAddress,
                                proto.denom)

MsgClaimDelegationRewards_toData(this) ==
  ("@type" :> "/alliance.alliance.MsgClaimDelegationRewards")
  @@ [delegatorAddress |-> this.fields.delegatorAddress,
      validatorAddress |-> this.fields.validatorAddress,
      denom |-> this.fields.denom]

MsgClaimDelegationRewards_fromProto(proto) ==
  new_MsgClaimDelegationRewards(proto.delegatorAddress, proto.validatorAddress,
                                proto.denom)

MsgClaimDelegationRewards_toProto(this) ==
  fromPartial({"delegatorAddress", "validatorAddress", "denom"},
              [delegatorAddress |-> this.fields.delegatorAddress,
               validatorAddress |-> this.fields.validatorAddress,
               denom |-> this.fields.denom])

new_MsgCreateDenom(sender, subdenom) ==
  [class |-> "MsgCreateDenom",
   fields |-> [sender |-> sender, subdenom |-> subdenom]]

MsgCreateDenom_toAmino(this) ==
  [type |-> "osmosis/tokenfactory/create-denom",
   value |-> [sender |-> this.fields.sender, subdenom |-> this.fields.subdenom]]

MsgCreateDenom_fromProto(proto) == new_MsgCreateDenom(proto.sender, proto.subdenom)

MsgCreateDenom_toProto(this) ==
  fromPartial({"sender", "subdenom"},
              [sender |-> this.fields.sender, subdenom |-> this.fields.subdenom])

MsgCreateDenom_fromData(d) == new_MsgCreateDenom(d.sender, d.subdenom)

MsgCreateDenom_toData(this) ==
  ("@type" :> "/cosmwasm.tokenfactory.v1beta1.MsgCreateDenom")
  @@ [sender |-> this.fields.sender, subdenom |-> this.fields.subdenom]

MsgCreateDenom_fromAmino(amino) ==
  new_MsgCreateDenom(amino.value.sender, amino.value.subdenom)

(***************************************************************************)
(* The program's state: a script of calls into core/bech32.ts.  data is    *)
(* the string the next call is given, prefix the chain prefix argument     *)
(* (undefined when omitted) and kind the declared type of data: "string"   *)
(* for the script's input, and the return type of the derivation that      *)
(* made it afterwards.  A derivation hands its result to the next call;    *)
(* a parameter declared with an address family is given the input or a     *)
(* value of that family; an error that leaves a call ends the script.      *)
(***************************************************************************)
VARIABLES input, prefix, data, kind, calls, op, arg, ret

(***************************************************************************)
(* and a message object msg, the last conversion of it (wire) and the      *)
(* message rebuilt from that conversion (back).                            *)
(***************************************************************************)
VARIABLES msg, wire, back

addrVars == <<input, prefix, data, kind, calls, op, arg, ret>>
msgVars == <<msg, wire, back>>
vars == <<addrVars, msgVars>>

NoMsg == [class |-> "none", fields |-> <<>>]
NoWire == [fmt |-> "none", class |-> "none", v |-> <<>>]

\* The longest chain of derivations a script makes
MaxCalls == 3

terra == <<116, 101, 114, 114, 97>>                            \* "terra"
terrax == <<116, 101, 114, 114, 97, 120>>                      \* "terrax"
\* "abcdefghijklmnopqrst"
letters20 ==
  <<97, 98, 99, 100, 101, 102, 103, 104, 105, 106, 107, 108, 109, 110, 111,
    112, 113, 114, 115, 116>>

Hrps == {terra, terra \o valoper, terra \o pub, terra \o valoperpub,
         terra \o valcons}

PayloadLengths == {20, 32, 52, 75}

Payload(n) == [i \in 1..n |-> (7 * i + n) % 32]

\* Every string the codec can encode from a prefix and a payload above
WellFormed ==
  {o.val.v : o \in {e \in {bech32_encode(h, Payload(n)) :
                             h \in Hrps, n \in PayloadLengths} : ~e.threw}}

Account32 == bech32_encode(terra, Payload(32)).val.v

\* "not-a-valid-bech32-string"
NotBech32 ==
  <<110, 111, 116, 45, 97, 45, 118, 97, 108, 105, 100, 45, 98, 101, 99, 104,
    51, 50, 45, 115, 116, 114, 105, 110, 103>>

\* An account address in capitals, one with its first letter in capitals,
\* one with its last character changed, and a string with no separator
Inputs ==
  WellFormed \cup
  { toUpperCase(Account32),
    <<84>> \o Tail(Account32),
    SubSeq(Account32, 1, Len(Account32) - 1)
      \o <<IF Account32[Len(Account32)] = 113 THEN 112 ELSE 113>>,
    NotBech32 }

PrefixArgs == {Undefined, Str(<<>>), Str(terra), Str(terrax), Str(letters20)}

Init ==
  /\ input \in Inputs
  /\ prefix \in PrefixArgs
  /\ data = input
  /\ kind = "string"
  /\ calls = <<>>
  /\ op = "none"
  /\ arg = <<>>
  /\ ret = Return(Undefined)
  /\ msg = NoMsg
  /\ wire = NoWire
  /\ back = NoMsg

\* data may be passed as a parameter declared with family k
Accepts(k) == kind \in {"string", k}

\* A call that inspects data and returns to the script
Observe(name, out) ==
  /\ ~ret.threw
  /\ op' = name
  /\ arg' = data
  /\ ret' = out
  /\ UNCHANGED <<input, prefix, data, kind, calls, msgVars>>

\* A call whose result, of family k, is the data of the next call
Derive(name, k, out) ==
  /\ ~ret.threw
  /\ Len(calls) < MaxCalls
  /\ op' = name
  /\ arg' = data
  /\ ret' = out
  /\ IF out.threw
     THEN UNCHANGED <<data, kind, calls>>
     ELSE data' = out.val.v /\ kind' = k /\ calls' = Append(calls, name)
  /\ UNCHANGED <<input, prefix, msgVars>>

\* validate(data: string, prefix?: string)
CallAccAddressValidate ==
  Observe("AccAddress.validate", AccAddress_validate(data, prefix))

\* fromValAddress(address: ValAddress): AccAddress
CallAccAddressFromValAddress ==
  /\ Accepts("ValAddress")
  /\ Derive("AccAddress.fromValAddress", "AccAddress",
            AccAddress_fromValAddress(data))

\* getPrefix(address: AccAddress)
CallAccAddressGetPrefix ==
  /\ Accepts("AccAddress")
  /\ Observe("AccAddress.getPrefix", AccAddress_getPrefix(data))

CallAccPubKeyValidate ==
  Observe("AccPubKey.validate", AccPubKey_validate(data, prefix))

\* fromAccAddress(address: AccAddress, prefix: string): AccPubKey
CallAccPubKeyFromAccAddress ==
  /\ Accepts("AccAddress")
  /\ prefix.t = "string"
  /\ Derive("AccPubKey.fromAccAddress", "AccPubKey",
            AccPubKey_fromAccAddress(data, prefix.v))

\* getPrefix(address: AccPubKey)
CallAccPubKeyGetPrefix ==
  /\ Accepts("AccPubKey")
  /\ Observe("AccPubKey.getPrefix", AccPubKey_getPrefix(data))

CallValAddressValidate ==
  Observe("ValAddress.validate", ValAddress_validate(data, prefix))

\* fromAccAddress(address: AccAddress, prefix: string): ValAddress
CallValAddressFromAccAddress ==
  /\ Accepts("AccAddress")
  /\ prefix.t = "string"
  /\ Derive("ValAddress.fromAccAddress", "ValAddress",
            ValAddress_fromAccAddress(data, prefix.v))

\* getPrefix(address: ValAddress)
CallValAddressGetPrefix ==
  /\ Accepts("ValAddress")
  /\ Observe("ValAddress.getPrefix", ValAddress_getPrefix(data))

CallValPubKeyValidate ==
  Observe("ValPubKey.validate", ValPubKey_validate(data, prefix))

\* fromValAddress(valAddress: ValAddress, prefix: string): ValPubKey
CallValPubKeyFromValAddress ==
  /\ Accepts("ValAddress")
  /\ prefix.t = "string"
  /\ Derive("ValPubKey.fromValAddress", "ValPubKey",
            ValPubKey_fromValAddress(data, prefix.v))

\* getPrefix(address: ValPubKey)
CallValPubKeyGetPrefix ==
  /\ Accepts("ValPubKey")
  /\ Observe("ValPubKey.getPrefix", ValPubKey_getPrefix(data))

CallValConsAddressValidate ==
  Observe("ValConsAddress.validate", ValConsAddress_validate(data, prefix))

\* getPrefix(address: ValConsAddress)
CallValConsAddressGetPrefix ==
  /\ Accepts("ValConsAddress")
  /\ Observe("ValConsAddress.getPrefix", ValConsAddress_getPrefix(data))

Next ==
  \/ CallAccAddressValidate
  \/ CallAccAddressFromValAddress
  \/ CallAccAddressGetPrefix
  \/ CallAccPubKeyValidate
  \/ CallAccPubKeyFromAccAddress
  \/ CallAccPubKeyGetPrefix
  \/ CallValAddressValidate
  \/ CallValAddressFromAccAddress
  \/ CallValAddressGetPrefix
  \/ CallValPubKeyValidate
  \/ CallValPubKeyFromValAddress
  \/ CallValPubKeyGetPrefix
  \/ CallValConsAddressValidate
  \/ CallValConsAddressGetPrefix

Spec == Init /\ [][Next]_vars

(***************************************************************************)
(* Message conversions                                                     *)
(***************************************************************************)
Delegators == {"terra1delegator", "terra1other"}
Validators == {"terravaloper1validator", "terravaloper1other"}
Denoms == {"", "uluna", "ibc/AAE7E4"}

Messages ==
  {new_MsgClaimDelegationRewards(d, v, n) :
     d \in Delegators, v \in Validators, n \in Denoms}
  \cup {new_MsgCreateDenom(d, n) : d \in Delegators, n \in Denoms}

MsgInit ==
  /\ msg \in Messages
  /\ wire = NoWire
  /\ back = NoMsg
  /\ input = <<>>
  /\ prefix = Undefined
  /\ data = <<>>
  /\ kind = "string"
  /\ calls = <<>>
  /\ op = "none"
  /\ arg = <<>>
  /\ ret = Return(Undefined)

\* m.toX(): the conversion of msg
Convert(class, fmt, out) ==
  /\ msg.class = class
  /\ wire' = [fmt |-> fmt, class |-> class, v |-> out]
  /\ back' = NoMsg
  /\ UNCHANGED <<msg, addrVars>>

\* Class.fromX(wire): the message rebuilt from the last conversion
Rebuild(class, fmt, out) ==
  /\ wire.class = class
  /\ wire.fmt = fmt
  /\ back' = out
  /\ UNCHANGED <<msg, wire, addrVars>>

ClaimToAmino ==
  Convert("MsgClaimDelegationRewards", "Amino",
          MsgClaimDelegationRewards_toAmino(msg))

ClaimFromAmino ==
  Rebuild("MsgClaimDelegationRewards", "Amino",
          MsgClaimDelegationRewards_fromAmino(wire.v))

ClaimToData ==
  Convert("MsgClaimDelegationRewards", "Data",
          MsgClaimDelegationRewards_toData(msg))

ClaimFromData ==
  Rebuild("MsgClaimDelegationRewards", "Data",
          MsgClaimDelegationRewards_fromData(wire.v))

ClaimToProto ==
  Convert("MsgClaimDelegationRewards", "Proto",
          MsgClaimDelegationRewards_toProto(msg))

ClaimFromProto ==
  Rebuild("MsgClaimDelegationRewards", "Proto",
          MsgClaimDelegationRewards_fromProto(wire.v))

CreateDenomToAmino ==
  Convert("MsgCreateDenom", "Amino", MsgCreateDenom_toAmino(msg))

CreateDenomFromAmino ==
  Rebuild("MsgCreateDenom", "Amino", MsgCreateDenom_fromAmino(wire.v))

CreateDenomToData ==
  Convert("MsgCreateDenom", "Data", MsgCreateDenom_toData(msg))

CreateDenomFromData ==
  Rebuild("MsgCreateDenom", "Data", MsgCreateDenom_fromData(wire.v))

CreateDenomToProto ==
  Convert("MsgCreateDenom", "Proto", MsgCreateDenom_toProto(msg))

CreateDenomFromProto ==
  Rebuild("MsgCreateDenom", "Proto", MsgCreateDenom_fromProto(wire.v))

MsgNext ==
  \/ ClaimToAmino
  \/ ClaimFromAmino
  \/ ClaimToData
  \/ ClaimFromData
  \/ ClaimToProto
  \/ ClaimFromProto
  \/ CreateDenomToAmino
  \/ CreateDenomFromAmino
  \/ CreateDenomToData
  \/ CreateDenomFromData
  \/ CreateDenomToProto
  \/ CreateDenomFromProto

MsgSpec == MsgInit /\ [][MsgNext]_vars

(***************************************************************************)
(* Properties                                                              *)
(***************************************************************************)
Decodes(s) == ~bech32_decode(s).threw
PrefixOf(s) == bech32_decode(s).val.v.prefix
WordsOf(s) == bech32_decode(s).val.v.words

ValidateOps ==
  {"AccAddress.validate", "AccPubKey.validate", "ValAddress.validate",
   "ValPubKey.validate", "ValConsAddress.validate"}

SuffixedValidateOps == ValidateOps \ {"AccAddress.validate"}

GetPrefixOps ==
  {"AccAddress.getPrefix", "AccPubKey.getPrefix", "ValAddress.getPrefix",
   "ValPubKey.getPrefix", "ValConsAddress.getPrefix"}

AppendingOps ==
  {"AccPubKey.fromAccAddress", "ValAddress.fromAccAddress",
   "ValPubKey.fromValAddress"}

DerivationOps == AppendingOps \cup {"AccAddress.fromValAddress"}

\* The fixed suffix of the family an operation belongs to
SuffixOf(o) ==
  CASE o \in {"AccPubKey.validate", "AccPubKey.fromAccAddress",
              "AccPubKey.getPrefix"} -> pub
    [] o \in {"ValAddress.validate", "ValAddress.fromAccAddress",
              "ValAddress.getPrefix"} -> valoper
    [] o \in {"ValPubKey.validate", "ValPubKey.fromValAddress",
              "ValPubKey.getPrefix"} -> valoperpub
    [] o \in {"ValConsAddress.validate", "ValConsAddress.getPrefix"} -> valcons
    [] OTHER -> <<>>

\* A root prefix: 2 to 20 lowercase letters
IsRoot(p) == Len(p) \in 2..20 /\ \A i \in 1..Len(p) : IsLower(p[i])

EndsWith(s, suffix) ==
  /\ Len(s) >= Len(suffix)
  /\ SubSeq(s, Len(s) - Len(suffix) + 1, Len(s)) = suffix

WithoutSuffix(s, suffix) == SubSeq(s, 1, Len(s) - Len(suffix))

Last(q) == q[Len(q)]

VfA == "ValAddress.fromAccAddress"
AfV == "AccAddress.fromValAddress"

\* C1: validate of every family returns a boolean and never throws, with or
\* without an expected prefix, and returns false whenever the codec fails to
\* decode the string.
C1_ValidateNeverThrows ==
  op \in ValidateOps =>
    /\ ~ret.threw
    /\ ret.val.t = "boolean"
    /\ (~Decodes(arg) => ret.val.v = FALSE)

C1_Witness ==
  /\ op = "ValConsAddress.validate"
  /\ arg = NotBech32
  /\ prefix.t = "undefined"
  /\ ~ret.threw
  /\ ret.val.t = "boolean"
  /\ ret.val.v = FALSE

\* The payload lengths validate takes, as the code has them
AcceptedLengths(o) == IF o = "AccAddress.validate" THEN {32, 52} ELSE {32}

\* C2: with a non-empty expected prefix p, validate(data, p) is true exactly
\* when data decodes, its payload has an accepted length for the family and
\* its decoded prefix is p followed by the family's suffix; a failed decode
\* never equals an expected prefix.
C2_ExactPrefix ==
  op \in ValidateOps /\ Truthy(prefix) =>
    /\ ~ret.threw
    /\ ret.val.v <=> /\ Decodes(arg)
                     /\ Len(WordsOf(arg)) \in AcceptedLengths(op)
                     /\ PrefixOf(arg) = prefix.v \o SuffixOf(op)

\* validate(a, p + "x") is false for a valid account address a of prefix p
C2_Witness ==
  /\ op = "AccAddress.validate"
  /\ prefix.t = "string"
  /\ prefix.v = terrax
  /\ Decodes(arg)
  /\ PrefixOf(arg) = terra
  /\ Len(WordsOf(arg)) = 32
  /\ ret.val.v = FALSE

\* C3 as claimed: validate accepts only payloads of 20 or 52 words for
\* account addresses and of 32 words for the other four families.
C3_AsClaimed ==
  op \in ValidateOps /\ ~ret.threw /\ ret.val.v =>
    /\ Decodes(arg)
    /\ Len(WordsOf(arg)) \in (IF op = "AccAddress.validate" THEN {20, 52}
                              ELSE {32})

\* C3 amended: validate accepts a decodable string only if its payload has
\* 32 or 52 words for account addresses, and exactly 32 words for the other
\* four families, with or without an expected prefix.
C3_AcceptedLengths ==
  op \in ValidateOps /\ ~ret.threw /\ ret.val.v =>
    /\ Decodes(arg)
    /\ Len(WordsOf(arg)) \in (IF op = "AccAddress.validate" THEN {32, 52}
                              ELSE {32})

\* A decodable account string of 20 words is rejected
C3_Witness ==
  /\ op = "AccAddress.validate"
  /\ Decodes(arg)
  /\ PrefixOf(arg) = terra
  /\ Len(WordsOf(arg)) = 20
  /\ ~ret.threw
  /\ ret.val.v = FALSE

\* C4: with no expected prefix given, validate of a suffixed family is true
\* only if data decodes with 32 words and its decoded prefix is a root
\* prefix (2 to 20 lowercase letters) followed by the family's suffix, so
\* that a prefix of another family (root + "valoperpub" given to
\* ValAddress.validate) is rejected.
C4_FamilyPattern ==
  op \in SuffixedValidateOps /\ prefix.t = "undefined" /\ ~ret.threw
    /\ ret.val.v =>
    /\ Decodes(arg)
    /\ Len(WordsOf(arg)) = 32
    /\ EndsWith(PrefixOf(arg), SuffixOf(op))
    /\ IsRoot(WithoutSuffix(PrefixOf(arg), SuffixOf(op)))

\* The derived string decodes to the words of the source under prefix p
DecodesTo(s, p, words) ==
  Decodes(s) /\ PrefixOf(s) = p /\ WordsOf(s) = words

\* The derived string is within the codec's length limit
Fits(p, words) == Len(p) + 7 + Len(words) <= LIMIT

\* C5 as claimed: for every decodable source and root prefix p the three
\* appending derivations return a string that decodes to the source's words
\* under p + suffix, and AccAddress.fromValAddress one that decodes to the
\* source's words under the source's prefix without its trailing "valoper".
C5_AsClaimed ==
  /\ op \in AppendingOps /\ Decodes(arg) /\ IsRoot(prefix.v) =>
       /\ ~ret.threw
       /\ DecodesTo(ret.val.v, prefix.v \o SuffixOf(op), WordsOf(arg))
  /\ op = AfV /\ Decodes(arg) /\ EndsWith(PrefixOf(arg), valoper) =>
       /\ ~ret.threw
       /\ DecodesTo(ret.val.v, WithoutSuffix(PrefixOf(arg), valoper),
                    WordsOf(arg))

\* C5 amended: the same, for a source whose words fit the codec's limit of
\* 90 characters under the new prefix (length of p + suffix, plus 7, plus the
\* number of words, at most 90), and for AccAddress.fromValAddress a source
\* whose prefix is longer than "valoper".
C5_PayloadPreserved ==
  /\ op \in AppendingOps /\ Decodes(arg) /\ IsRoot(prefix.v)
       /\ Fits(prefix.v \o SuffixOf(op), WordsOf(arg)) =>
       /\ ~ret.threw
       /\ DecodesTo(ret.val.v, prefix.v \o SuffixOf(op), WordsOf(arg))
  /\ op = AfV /\ Decodes(arg) /\ EndsWith(PrefixOf(arg), valoper)
       /\ Len(PrefixOf(arg)) > Len(valoper) =>
       /\ ~ret.threw
       /\ DecodesTo(ret.val.v, WithoutSuffix(PrefixOf(arg), valoper),
                    WordsOf(arg))

\* The concrete case: a 32-word "terra" address derived under "terra"
C5_Witness ==
  /\ op = VfA
  /\ prefix.t = "string"
  /\ prefix.v = terra
  /\ Decodes(arg)
  /\ PrefixOf(arg) = terra
  /\ Len(WordsOf(arg)) = 32
  /\ ~ret.threw
  /\ DecodesTo(ret.val.v, terra \o valoper, WordsOf(arg))

\* The derivation a getPrefix of the same family undoes
DerivationOf(o) ==
  CASE o = "AccPubKey.getPrefix" -> "AccPubKey.fromAccAddress"
    [] o = "ValAddress.getPrefix" -> VfA
    [] o = "ValPubKey.getPrefix" -> "ValPubKey.fromValAddress"
    [] OTHER -> "none"

\* getPrefix was called on the result of its family's derivation
AfterDerivation ==
  /\ op \in GetPrefixOps
  /\ calls # <<>>
  /\ Last(calls) = DerivationOf(op)
  /\ arg = data

\* C6 as claimed: for every decodable a and root prefix p,
\* getPrefix(fromAccAddress(a, p)) (and fromValAddress for ValPubKey) has
\* the value p.
C6_AsClaimed ==
  /\ op \in AppendingOps /\ Decodes(arg) /\ IsRoot(prefix.v) => ~ret.threw
  /\ AfterDerivation /\ IsRoot(prefix.v) =>
       ~ret.threw /\ StrictEq(ret.val, prefix)

\* C6 amended: the same, for every decodable a whose words fit the codec's
\* limit of 90 characters under p + suffix.
C6_GetPrefixOfDerived ==
  /\ op \in AppendingOps /\ Decodes(arg) /\ IsRoot(prefix.v)
       /\ Fits(prefix.v \o SuffixOf(op), WordsOf(arg)) => ~ret.threw
  /\ AfterDerivation /\ IsRoot(prefix.v) =>
       ~ret.threw /\ StrictEq(ret.val, prefix)

C6_Witness ==
  /\ op = "ValPubKey.getPrefix"
  /\ AfterDerivation
  /\ prefix.t = "string"
  /\ prefix.v = letters20
  /\ ~ret.threw
  /\ StrictEq(ret.val, prefix)

\* input is a valid account address of root prefix p = prefix
ValidAccount ==
  /\ prefix.t = "string"
  /\ IsRoot(prefix.v)
  /\ AccAddress_validate(input, prefix).val.v

\* The last call is the next step of the chain and ended in an error
ChainBroke(chain) ==
  /\ ret.threw
  /\ Len(calls) < Len(chain)
  /\ calls = SubSeq(chain, 1, Len(calls))
  /\ op = chain[Len(calls) + 1]

\* C7 as claimed: for a valid account address a of root prefix p,
\* ValAddress.fromAccAddress(AccAddress.fromValAddress(
\*   ValAddress.fromAccAddress(a, p)), p) = a.
C7_AsClaimed ==
  ValidAccount =>
    /\ ~ChainBroke(<<VfA, AfV, VfA>>)
    /\ calls = <<VfA, AfV, VfA>> => data = input

\* C7 amended: the three derivations return the validator operator address
\* of a: a string that decodes to the words of a under p + "valoper" (not a
\* itself, whose prefix is p).
C7_RoundTrip ==
  ValidAccount =>
    /\ ~ChainBroke(<<VfA, AfV, VfA>>)
    /\ calls = <<VfA, AfV, VfA>> =>
         DecodesTo(data, prefix.v \o valoper, WordsOf(input))

C7_Witness ==
  /\ ValidAccount
  /\ calls = <<VfA, AfV, VfA>>
  /\ op = VfA
  /\ data # input
  /\ PrefixOf(data) = PrefixOf(input) \o valoper

\* C8: getPrefix of every family and every derivation, given a string the
\* codec cannot decode, end in the codec's decode error and return nothing.
C8_DecodeErrorPropagates ==
  op \in GetPrefixOps \cup DerivationOps /\ ~Decodes(arg) =>
    /\ ret.threw
    /\ ret.val = bech32_decode(arg).val

C8_Witness ==
  /\ op = "ValPubKey.fromValAddress"
  /\ arg = NotBech32
  /\ ret.threw
  /\ ret.val.v = "No separator character"

AminoType(class) ==
  IF class = "MsgClaimDelegationRewards"
  THEN "alliance/MsgClaimDelegationRewards"
  ELSE "osmosis/tokenfactory/create-denom"

DataType(class) ==
  IF class = "MsgClaimDelegationRewards"
  THEN "/alliance.alliance.MsgClaimDelegationRewards"
  ELSE "/cosmwasm.tokenfactory.v1beta1.MsgCreateDenom"

\* C9: fromAmino(m.toAmino()), fromData(m.toData()) and fromProto(m.toProto())
\* rebuild a message with the fields of m, toAmino emits the class's type
\* and toData its '@type', and no conversion changes m.
C9_FieldMappers ==
  /\ [](/\ back.class # "none" => back = msg
        /\ wire.fmt = "Amino" => wire.v.type = AminoType(msg.class)
        /\ wire.fmt = "Data" => wire.v["@type"] = DataType(msg.class))
  /\ [][msg' = msg]_vars

C9_Witness ==
  /\ msg.class = "MsgClaimDelegationRewards"
  /\ msg.fields.denom = "uluna"
  /\ wire.fmt = "Data"
  /\ back = msg

\* input decodes to the root prefix p = prefix
DecodesToRoot ==
  /\ prefix.t = "string"
  /\ IsRoot(prefix.v)
  /\ Decodes(input)
  /\ PrefixOf(input) = prefix.v

\* C10 as claimed: for every string a that decodes to a root prefix p, with
\* any payload, AccAddress.fromValAddress(ValAddress.fromAccAddress(a, p)) = a.
C10_AsClaimed ==
  DecodesToRoot =>
    /\ ~ChainBroke(<<VfA, AfV>>)
    /\ calls = <<VfA, AfV>> => data = input

\* C10 amended: the same, for every string a in lower case whose words fit
\* the codec's limit of 90 characters under p + "valoper".
C10_Inverse ==
  DecodesToRoot /\ input = toLowerCase(input)
    /\ Fits(prefix.v \o valoper, WordsOf(input)) =>
    /\ ~ChainBroke(<<VfA, AfV>>)
    /\ calls = <<VfA, AfV>> => data = input

C10_Witness ==
  /\ DecodesToRoot
  /\ Len(WordsOf(input)) = 52
  /\ calls = <<VfA, AfV>>
  /\ op = AfV
  /\ data = input

=============================================================================
